---------------------------- MODULE Spec2Model ----------------------------
(***************************************************************************)
(* A model of telegram_exception_alerts/alerter.py: the Alerter class, its *)
(* two constructors, send_message / custom_alert, and the wrapper that     *)
(* exception_alert (and __call__) returns.                                 *)
(*                                                                         *)
(* Python values are modelled as follows.                                  *)
(*   - a str that the code only compares or formats is a TLA+ string;      *)
(*     a str the code searches (the text of an environment variable) is    *)
(*     the sequence of its characters, and Chars gives the characters of   *)
(*     an exception type name;                                             *)
(*   - a list is an object on the heap (a sequence of its items) and a     *)
(*     variable or attribute holds a reference to it, so that two          *)
(*     attributes can hold the same list;                                  *)
(*   - an optional value is a sequence of length 0 (absent) or 1.          *)
(***************************************************************************)
EXTENDS Integers, Sequences, FiniteSets, TLC

VARIABLES
    heap,       \* the list objects: heap[i] is the items of list object i
    alerters,   \* the Alerter instances, in order of construction
    made,       \* history: how each instance was constructed and what was
                \* added through it
    wrappers,   \* the closures returned by exception_alert / __call__
    wrapped,    \* history: how each closure was made, and the configuration
                \* of its instance at that moment
    inv,        \* the calls of wrappers: one record per calling thread
    lastCall,   \* the last direct call of send_message / custom_alert
    envCall     \* the last call of from_environment

vars == <<heap, alerters, made, wrappers, wrapped, inv, lastCall, envCall>>

-----------------------------------------------------------------------------
(* Bounds of the model.                                                    *)

MaxListLen == 2     \* longest filter list
NumProcs == 2       \* calling threads, each making one call of a wrapper
MaxAlerters == 2    \* instances constructed in one run
MaxChanges == 2     \* in-place additions and attribute assignments in one run

Procs == 1..NumProcs

-----------------------------------------------------------------------------
(* Values.                                                                 *)

None == "None"

Some(v) == <<v>>
Absent == <<>>
Opt(S) == {Absent} \cup {Some(v) : v \in S}
OrDefault(o, d) == IF o = Absent THEN d ELSE o[1]

\* Exception classes the wrapped functions raise.  KeyboardInterrupt derives
\* from BaseException but not from Exception; Error is a class of the
\* application.
TypeNames == {"ValueError", "KeyError", "Error", "KeyboardInterrupt"}

IsException(type) == type # "KeyboardInterrupt"

Exc(type, msg) == [type |-> type, msg |-> msg]

ConnectionError == Exc("ConnectionError", "unreachable")

\* The characters of a type name.
Chars(name) ==
    CASE name = "ValueError" -> <<"V", "a", "l", "u", "e", "E", "r", "r", "o", "r">>
      [] name = "KeyError" -> <<"K", "e", "y", "E", "r", "r", "o", "r">>
      [] name = "Error" -> <<"E", "r", "r", "o", "r">>
      [] name = "KeyboardInterrupt" ->
            <<"K", "e", "y", "b", "o", "a", "r", "d",
              "I", "n", "t", "e", "r", "r", "u", "p", "t">>

\* What an attribute holds: a reference to a list object, or a str.
ListRef(i) == [kind |-> "list", ref |-> i, text |-> <<>>]
Str(chars) == [kind |-> "str", ref |-> 0, text |-> chars]

\* The container an attribute value denotes: a list's items or a str's
\* characters.
Deref(v) ==
    IF v.kind = "list"
    THEN [kind |-> "list", items |-> heap[v.ref]]
    ELSE [kind |-> "str", items |-> v.text]

\* bool(c) of a list or str.
Truthy(c) == Len(c.items) > 0

IsSubstring(s, t) ==
    \E i \in 0..(Len(t) - Len(s)) : SubSeq(t, i + 1, i + Len(s)) = s

\* `x in c`: an item of a list, a substring of a str.
PyIn(x, c) ==
    IF c.kind = "list"
    THEN \E i \in 1..Len(c.items) : c.items[i] = x
    ELSE IsSubstring(Chars(x), c.items)

-----------------------------------------------------------------------------
(* The wrapped functions: callables f(x, *, base=10) of the application.   *)

Funcs ==
    { [name |-> "parse", module |-> "app.parsing"],
      [name |-> "lookup", module |-> "app.store"],
      [name |-> "step", module |-> "app.jobs"],
      [name |-> "serve", module |-> "app.main"] }

Returned(v) == [kind |-> "return", value |-> v, exc |-> Absent, context |-> Absent]
Raised(e, ctx) == [kind |-> "raise", value |-> 0, exc |-> Some(e), context |-> ctx]

\* f(x, base=...): each function fails on x = 0 with its own exception and
\* otherwise computes a value from both arguments.
FuncResult(f, x, base) ==
    LET b == OrDefault(base, 10) IN
    IF x # 0 THEN
        CASE f.name = "parse" -> Returned(x + b)
          [] f.name = "lookup" -> Returned(x * b)
          [] f.name = "step" -> Returned(b - x)
          [] f.name = "serve" -> Returned(x)
    ELSE
        CASE f.name = "parse" -> Raised(Exc("ValueError", "bad"), Absent)
          [] f.name = "lookup" -> Raised(Exc("KeyError", "k"), Absent)
          [] f.name = "step" -> Raised(Exc("Error", "boom"), Absent)
          [] f.name = "serve" -> Raised(Exc("KeyboardInterrupt", ""), Absent)

-----------------------------------------------------------------------------
(* Alerter.__init__ and base_url.                                          *)

\* The two default-argument lists of __init__, made once when the function
\* is defined: `blacklist=[]` and `whitelist=[]`.
DefaultBlacklist == ListRef(1)
DefaultWhitelist == ListRef(2)

Alerter__init__(bot_token, chat_id, blacklist, whitelist) ==
    [bot_token |-> bot_token,
     chat_id |-> chat_id,
     whitelist |-> OrDefault(whitelist, DefaultWhitelist),
     blacklist |-> OrDefault(blacklist, DefaultBlacklist)]

base_url_without_bot(self) == "https://api.telegram.org/" \o self.bot_token

base_url(self) == "https://api.telegram.org/bot" \o self.bot_token

\* The values of an instance's attributes, lists read through.
Config(d) ==
    [bot_token |-> alerters[d].bot_token,
     chat_id |-> alerters[d].chat_id,
     whitelist |-> Deref(alerters[d].whitelist),
     blacklist |-> Deref(alerters[d].blacklist)]

-----------------------------------------------------------------------------
(* Alerter.from_environment.                                               *)

\* int(s) of a str: surrounding blanks are dropped, a sign may lead, and
\* what is left must be decimal digits, at least one.
Digits == <<"0", "1", "2", "3", "4", "5", "6", "7", "8", "9">>
IsDigit(ch) == \E i \in 1..Len(Digits) : Digits[i] = ch
DigitValue(ch) == (CHOOSE i \in 1..Len(Digits) : Digits[i] = ch) - 1

RECURSIVE Strip(_)
Strip(s) ==
    IF s = <<>> THEN s
    ELSE IF Head(s) = " " THEN Strip(Tail(s))
    ELSE IF s[Len(s)] = " " THEN Strip(SubSeq(s, 1, Len(s) - 1))
    ELSE s

RECURSIVE Decimal(_)
Decimal(ds) ==
    IF ds = <<>> THEN 0
    ELSE 10 * Decimal(SubSeq(ds, 1, Len(ds) - 1)) + DigitValue(ds[Len(ds)])

PyInt(s) ==
    LET t == Strip(s)
        signed == t # <<>> /\ Head(t) \in {"-", "+"}
        ds == IF signed THEN Tail(t) ELSE t
    IN IF ds # <<>> /\ \A i \in 1..Len(ds) : IsDigit(ds[i])
       THEN Returned(IF signed /\ Head(t) = "-" THEN 0 - Decimal(ds) ELSE Decimal(ds))
       ELSE Raised(Exc("ValueError", "invalid literal for int() with base 10"), Absent)

RequiredMessageOfToken(var) == "ALERT_BOT_TOKEN must be set in environment variables"

\* The message of the KeyError raised for a required variable that is not
\* set.
RequiredMessage(var) == var \o " must be set in environment variables"

\* os.environ[var] in its try block: the value, or the KeyError raised in
\* the handler of the lookup's own KeyError.
Required(env, var) ==
    IF env[var] = Absent
    THEN Raised(Exc("KeyError", RequiredMessage(var)), Some(Exc("KeyError", var)))
    ELSE [kind |-> "return", value |-> env[var][1], exc |-> Absent, context |-> Absent]

\* os.environ.get(var, []): the str of the variable, or the new list.
EnvironGet(env, var, new) ==
    IF env[var] = Absent THEN ListRef(new) ELSE Str(env[var][1])

\* from_environment() under the environment env, with the heap holding n
\* lists: how the call ends, the instance it constructs if any, and the
\* lists it makes.
from_environment(env, n) ==
    LET token == Required(env, "ALERT_BOT_TOKEN")
        chat_id == Required(env, "ALERT_CHAT_ID")
        whitelist == EnvironGet(env, "ALERT_BOT_WHITELIST", n + 1)
        blacklist == EnvironGet(env, "ALERT_BOT_BLACKLIST", n + 2)
        number == PyInt(chat_id.value)
    IN IF token.kind = "raise"
       THEN [result |-> token, instance |-> Absent, lists |-> <<>>]
       ELSE IF chat_id.kind = "raise"
       THEN [result |-> chat_id, instance |-> Absent, lists |-> <<>>]
       ELSE IF number.kind = "raise"
       THEN [result |-> number, instance |-> Absent, lists |-> << <<>>, <<>> >>]
       ELSE [result |-> Returned(0),
             instance |-> Some(Alerter__init__(token.value, number.value,
                                               Some(blacklist), Some(whitelist))),
             lists |-> << <<>>, <<>> >>]

-----------------------------------------------------------------------------
(* The transport: requests.post(url, json=params) returns a response or    *)
(* raises.  A response with an error status is still a response.           *)

Response(status) == [kind |-> "response", status |-> status]
TransportRaises == [kind |-> "raise", status |-> 0]
TransportOutcomes == {Response(200), Response(403), TransportRaises}

\* send_message(chat_id, *, text, parse_mode, disable_web_page_preview,
\* disable_notification) with the transport answering `out`: the requests it
\* posts and what the call does then.
SendMessageParseModeDefault == None
SendMessagePreviewDefault == TRUE
SendMessageNotificationDefault == FALSE

send_message(self, chat_id, text, parse_mode, preview, notification, out) ==
    LET url == base_url(self) \o "/sendMessage"
        params == [chat_id |-> chat_id,
                   text |-> text,
                   parse_mode |-> OrDefault(parse_mode, SendMessageParseModeDefault),
                   disable_web_page_preview |->
                        OrDefault(preview, SendMessagePreviewDefault),
                   disable_notification |->
                        OrDefault(notification, SendMessageNotificationDefault)]
    IN [requests |-> <<[url |-> url, json |-> params]>>,
        result |-> IF out.kind = "raise"
                   THEN Raised(ConnectionError, Absent)
                   ELSE Returned(out.status)]

CustomAlertParseModeDefault == None
CustomAlertPreviewDefault == TRUE
CustomAlertNotificationDefault == FALSE

custom_alert(self, text, parse_mode, preview, notification, out) ==
    send_message(self, self.chat_id, text,
                 Some(OrDefault(parse_mode, CustomAlertParseModeDefault)),
                 Some(OrDefault(preview, CustomAlertPreviewDefault)),
                 Some(OrDefault(notification, CustomAlertNotificationDefault)),
                 out)


-----------------------------------------------------------------------------
(* exception_alert, __call__ and the closure `inner`.                      *)

\* The closure exception_alert returns: it holds the instance (by
\* reference: its index) and the function, and functools.wraps gives it the
\* function's __name__ and __module__.
exception_alert(d, func) ==
    [self |-> d, func |-> func, name |-> func.name, module |-> func.module]

Alerter__call__(d, func) == exception_alert(d, func)

SelfAtWrap(w) == wrapped[w].cfg

\* `self` as the closure w sees it when it runs.
Self(w) == Config(wrappers[w].self)

CallFuncNoKwargs(func, x, base) == FuncResult(func, x, Absent)

\* func(*args, **kwargs)
CallFunc(func, x, base) == FuncResult(func, x, base)

CatchesExceptionOnly(e) == IsException(e.type)

\* `except BaseException as e` handles every exception.
Catches(e) == TRUE

\* str(e): KeyError shows the repr of its argument.
StrOf(e) == IF e.type = "KeyError" THEN "'" \o e.msg \o "'" ELSE e.msg

\* traceback.format_exc(): the frames of inner and of the function, then the
\* exception line.
format_exc(e, func) ==
    "Traceback (most recent call last):\n  in inner\n  in " \o func.name \o "\n"
        \o (IF StrOf(e) = "" THEN e.type ELSE e.type \o ": " \o StrOf(e)) \o "\n"

\* The f-string of the alert, as the sequence of its pieces.
AlertText(e, func) ==
    <<"<b>", e.type, "('", StrOf(e), "')</b> in <u>", func.name,
      "</u> from <u>", func.module, "</u>\n\n<pre>", format_exc(e, func), "</pre>">>

\* `self.whitelist and error_type in self.whitelist`
InWhitelist(self, error_type) ==
    Truthy(self.whitelist) /\ PyIn(error_type, self.whitelist)

\* `not self.blacklist or error_type in self.blacklist`
PassesBlacklist(self, error_type) ==
    ~Truthy(self.blacklist) \/ PyIn(error_type, self.blacklist)

ReRaiseSwallowed(e) == Returned(0)

\* A bare `raise` in the handler: the handled exception leaves the wrapper.
ReRaise(e) == Raised(e, Absent)

AfterSendSuppressed(r, e) == [pc |-> "reraise", result |-> Absent]

\* What follows the call of send_message in the handler: its exception is
\* not caught and leaves the wrapper, with the handled exception as its
\* context; its return value is dropped and the handler goes on.
AfterSend(r, e) ==
    IF r.kind = "raise"
    THEN [pc |-> "done", result |-> Some(Raised(r.exc[1], Some(e)))]
    ELSE [pc |-> "reraise", result |-> Absent]

HandledExceptionOfAnyThread(p) ==
    inv[CHOOSE q \in Procs : inv[q].exc # Absent /\ \A r \in Procs :
                                inv[r].exc # Absent => q >= r].exc[1]

\* `e` of `except BaseException as e`: a local of the call.
HandledException(p) == inv[p].exc[1]

IdleInv ==
    [pc |-> "idle", w |-> 0, x |-> 0, base |-> Absent, cfg |-> Absent,
     exc |-> Absent, requests |-> <<>>, transport |-> Absent, result |-> Absent]

\* No call of a wrapper is in progress.
Quiescent == \A p \in Procs : inv[p].pc \in {"idle", "done"}

\* Thread p calls wrapper w as w(x) or w(x, base=b).
Call(p, w, x, base) ==
    /\ inv[p].pc = "idle"
    /\ w \in 1..Len(wrappers)
    /\ inv' = [inv EXCEPT ![p] =
                  [IdleInv EXCEPT !.pc = "try", !.w = w, !.x = x, !.base = base,
                                  !.cfg = Some(Config(wrappers[w].self))]]
    /\ UNCHANGED <<heap, alerters, made, wrappers, wrapped, lastCall, envCall>>

\* try: return func(*args, **kwargs) / except BaseException as e
Try(p) ==
    /\ inv[p].pc = "try"
    /\ LET r == CallFunc(wrappers[inv[p].w].func, inv[p].x, inv[p].base) IN
       inv' = [inv EXCEPT ![p] =
                  IF r.kind = "raise" /\ Catches(r.exc[1])
                  THEN [@ EXCEPT !.pc = "except", !.exc = r.exc]
                  ELSE [@ EXCEPT !.pc = "done", !.exc = r.exc, !.result = Some(r)]]
    /\ UNCHANGED <<heap, alerters, made, wrappers, wrapped, lastCall, envCall>>

\* The handler up to the two filter tests.
Except(p) ==
    /\ inv[p].pc = "except"
    /\ LET e == HandledException(p)
           error_type == e.type
           self == Self(inv[p].w)
       IN inv' = [inv EXCEPT ![p] =
                    IF InWhitelist(self, error_type)
                    THEN [@ EXCEPT !.pc = "done", !.result = Some(ReRaise(e))]
                    ELSE IF PassesBlacklist(self, error_type)
                    THEN [@ EXCEPT !.pc = "send"]
                    ELSE [@ EXCEPT !.pc = "reraise"]]
    /\ UNCHANGED <<heap, alerters, made, wrappers, wrapped, lastCall, envCall>>

\* self.send_message(self.chat_id, text=text, parse_mode="HTML"); an
\* exception of the transport leaves the handler with the handled exception
\* as its context.
Send(p, out) ==
    /\ inv[p].pc = "send"
    /\ LET e == HandledException(p)
           self == Self(inv[p].w)
           text == AlertText(e, wrappers[inv[p].w].func)
           sm == send_message(self, self.chat_id, text, Some("HTML"),
                              Absent, Absent, out)
           next == AfterSend(sm.result, e)
       IN inv' = [inv EXCEPT ![p] =
                    [@ EXCEPT !.pc = next.pc,
                              !.requests = @ \o sm.requests,
                              !.transport = Some(out),
                              !.result = next.result]]
    /\ UNCHANGED <<heap, alerters, made, wrappers, wrapped, lastCall, envCall>>

\* The closing `raise` of the handler.
Reraise(p) ==
    /\ inv[p].pc = "reraise"
    /\ inv' = [inv EXCEPT ![p] =
                  [@ EXCEPT !.pc = "done", !.result = Some(ReRaise(HandledException(p)))]]
    /\ UNCHANGED <<heap, alerters, made, wrappers, wrapped, lastCall, envCall>>

-----------------------------------------------------------------------------
(* Direct calls of send_message and custom_alert by the application.       *)

SendMessageCall(d, chat_id, text, parse_mode, preview, notification, out) ==
    /\ d \in 1..Len(alerters)
    /\ LET sm == send_message(Config(d), chat_id, text, parse_mode, preview,
                              notification, out)
       IN lastCall' = [op |-> "send_message",
                       self |-> Some(Config(d)),
                       chat_id |-> Some(chat_id),
                       text |-> text,
                       parse_mode |-> parse_mode,
                       preview |-> preview,
                       notification |-> notification,
                       transport |-> Some(out),
                       requests |-> sm.requests,
                       result |-> Some(sm.result)]
    /\ UNCHANGED <<heap, alerters, made, wrappers, wrapped, inv, envCall>>

CustomAlertCall(d, text, parse_mode, preview, notification, out) ==
    /\ d \in 1..Len(alerters)
    /\ LET sm == custom_alert(Config(d), text, parse_mode, preview,
                              notification, out)
       IN lastCall' = [op |-> "custom_alert",
                       self |-> Some(Config(d)),
                       chat_id |-> Absent,
                       text |-> text,
                       parse_mode |-> parse_mode,
                       preview |-> preview,
                       notification |-> notification,
                       transport |-> Some(out),
                       requests |-> sm.requests,
                       result |-> Some(sm.result)]
    /\ UNCHANGED <<heap, alerters, made, wrappers, wrapped, inv, envCall>>

-----------------------------------------------------------------------------
(* Inputs.                                                                 *)

Tokens == {"T1", "T2"}
ChatIds == {42, -7}
Xs == {0, 1}
Bases == {Absent, Some(3)}
Texts == {<<"disk ", "91%", " full">>}
GivenParseModes == {"MARKDOWN", "HTML"}

\* Filter lists a caller passes: lists of distinct type names.
FilterLists ==
    UNION { { s \in [1..n -> TypeNames] : \A i, j \in 1..n : i < j => s[i] # s[j] }
            : n \in 0..MaxListLen }

\* How an instance came to be: which filters were left to the defaults, the
\* environment it was read from, and the names added through it.
Made(blDefault, wlDefault, env) ==
    [blDefault |-> blDefault, wlDefault |-> wlDefault, env |-> env,
     blAdded |-> <<>>, wlAdded |-> <<>>, assigned |-> 0]

NoCall ==
    [op |-> "none", self |-> Absent, chat_id |-> Absent, text |-> <<>>,
     parse_mode |-> Absent, preview |-> Absent, notification |-> Absent,
     transport |-> Absent, requests |-> <<>>, result |-> Absent]
NoEnvCall == [env |-> Absent, result |-> Absent, alerter |-> 0]

\* Texts of the environment variables, as characters.
ChatIdTexts == {<<"4", "2">>, <<"-", "7">>, <<" ", "7">>, <<"4", "x">>, <<>>}
WhitelistTexts ==
    {<<>>, Chars("KeyError"), Chars("ValueError") \o <<",">> \o Chars("Error")}
BlacklistTexts == {Chars("KeyError")}

\* Environments of the process: each variable set or not.
Envs ==
    { [ALERT_BOT_TOKEN |-> t, ALERT_CHAT_ID |-> c,
       ALERT_BOT_WHITELIST |-> w, ALERT_BOT_BLACKLIST |-> b] :
        t \in Opt({"T1"}), c \in Opt(ChatIdTexts),
        w \in Opt(WhitelistTexts), b \in Opt(BlacklistTexts) }

\* The program before any instance is constructed.
InitEmpty ==
    /\ heap = << <<>>, <<>> >>
    /\ alerters = <<>>
    /\ made = <<>>
    /\ wrappers = <<>>
    /\ wrapped = <<>>
    /\ inv = [p \in Procs |-> IdleInv]
    /\ lastCall = NoCall
    /\ envCall = NoEnvCall

HowWrapped(via, d) == [via |-> via, cfg |-> Config(d)]

\* Every function decorated by the instance d, as a module does on import.
Decorated(d) ==
    << exception_alert(d, [name |-> "parse", module |-> "app.parsing"]),
       exception_alert(d, [name |-> "lookup", module |-> "app.store"]),
       exception_alert(d, [name |-> "step", module |-> "app.jobs"]),
       exception_alert(d, [name |-> "serve", module |-> "app.main"]) >>

-----------------------------------------------------------------------------
(* Construction by the application.                                        *)

\* The application constructs an instance, passing a new list for a filter
\* or leaving the filter out.
Construct(bot_token, chat_id, blacklist, whitelist) ==
    /\ Len(alerters) < MaxAlerters
    /\ LET n == Len(heap)
           bl == IF blacklist = Absent THEN Absent ELSE Some(ListRef(n + 1))
           wl == IF whitelist = Absent THEN Absent
                 ELSE Some(ListRef(n + Len(blacklist) + 1))
       IN /\ heap' = heap \o blacklist \o whitelist
          /\ alerters' = Append(alerters, Alerter__init__(bot_token, chat_id, bl, wl))
          /\ made' = Append(made, Made(blacklist = Absent, whitelist = Absent, Absent))
    /\ UNCHANGED <<wrappers, wrapped, inv, lastCall, envCall>>

RECURSIVE Changes(_)
Changes(m) ==
    IF m = <<>> THEN 0
    ELSE Len(Head(m).blAdded) + Len(Head(m).wlAdded) + Head(m).assigned
            + Changes(Tail(m))

\* The application adds a name in place to a filter list of instance d:
\* d.whitelist.append(name) or d.blacklist.append(name).
Add(d, attr, name) ==
    /\ Quiescent
    /\ Changes(made) < MaxChanges
    /\ d \in 1..Len(alerters)
    /\ alerters[d][attr].kind = "list"
    /\ Len(heap[alerters[d][attr].ref]) < MaxListLen
    /\ heap' = [heap EXCEPT ![alerters[d][attr].ref] = Append(@, name)]
    /\ made' = IF attr = "whitelist"
               THEN [made EXCEPT ![d].wlAdded = Append(@, name)]
               ELSE [made EXCEPT ![d].blAdded = Append(@, name)]
    /\ UNCHANGED <<alerters, wrappers, wrapped, inv, lastCall, envCall>>

\* The application assigns to d.bot_token or d.chat_id.
Assign(d, attr, value) ==
    /\ Quiescent
    /\ Changes(made) < MaxChanges
    /\ d \in 1..Len(alerters)
    /\ alerters[d][attr] # value
    /\ alerters' = [alerters EXCEPT ![d][attr] = value]
    /\ made' = [made EXCEPT ![d].assigned = @ + 1]
    /\ UNCHANGED <<heap, wrappers, wrapped, inv, lastCall, envCall>>

\* The application wraps a function it has not wrapped yet, by
\* d.exception_alert(func) or by d(func).
Wrap(d, func, via) ==
    /\ d \in 1..Len(alerters)
    /\ \A w \in 1..Len(wrappers) : wrappers[w].func # func
    /\ wrappers' = Append(wrappers, IF via = "__call__"
                                    THEN Alerter__call__(d, func)
                                    ELSE exception_alert(d, func))
    /\ wrapped' = Append(wrapped, HowWrapped(via, d))
    /\ UNCHANGED <<heap, alerters, made, inv, lastCall, envCall>>

\* The caller has the outcome of the call; the thread is free for another.
Finish(p) ==
    /\ inv[p].pc = "done"
    /\ inv' = [inv EXCEPT ![p] = IdleInv]
    /\ UNCHANGED <<heap, alerters, made, wrappers, wrapped, lastCall, envCall>>

\* The process calls from_environment() once, under the environment env.
FromEnvironment(env) ==
    /\ envCall.env = Absent
    /\ LET r == from_environment(env, Len(heap)) IN
       /\ envCall' = [env |-> Some(env), result |-> Some(r.result),
                      alerter |-> IF r.instance = Absent THEN 0 ELSE Len(alerters) + 1]
       /\ heap' = heap \o r.lists
       /\ alerters' = alerters \o r.instance
       /\ made' = IF r.instance = Absent THEN made
                  ELSE Append(made, Made(FALSE, FALSE, Some(env)))
    /\ UNCHANGED <<wrappers, wrapped, inv, lastCall>>

\* The application's module applies the instance d to each of its functions.
Decorate(d) ==
    /\ wrappers = <<>>
    /\ d \in 1..Len(alerters)
    /\ wrappers' = Decorated(d)
    /\ wrapped' = [w \in 1..Len(Decorated(d)) |-> HowWrapped("exception_alert", d)]
    /\ UNCHANGED <<heap, alerters, made, inv, lastCall, envCall>>

-----------------------------------------------------------------------------
(* Spec: one instance constructed with any two filter lists, its           *)
(* decorated functions called by one thread.                               *)

Init ==
    \E bl \in FilterLists, wl \in FilterLists :
        /\ heap = << <<>>, <<>>, bl, wl >>
        /\ alerters = << Alerter__init__("T1", 42, Some(ListRef(3)), Some(ListRef(4))) >>
        /\ made = << Made(FALSE, FALSE, Absent) >>
        /\ wrappers = Decorated(1)
        /\ wrapped = [w \in 1..Len(wrappers) |-> HowWrapped("exception_alert", 1)]
        /\ inv = [p \in Procs |-> IdleInv]
        /\ lastCall = NoCall
        /\ envCall = NoEnvCall

Next ==
    \/ \E w \in 1..Len(wrappers), x \in Xs, base \in Bases : Call(1, w, x, base)
    \/ Try(1)
    \/ Except(1)
    \/ \E out \in TransportOutcomes : Send(1, out)
    \/ Reraise(1)

Spec == Init /\ [][Next]_vars

-----------------------------------------------------------------------------
(* SpecSend: one instance with any token and chat id; the application      *)
(* calls send_message and custom_alert with any options, and one thread    *)
(* calls the decorated functions.                                          *)

InitSend ==
    \E token \in Tokens, chat \in ChatIds :
        /\ heap = << <<>>, <<>> >>
        /\ alerters = << Alerter__init__(token, chat, Absent, Absent) >>
        /\ made = << Made(TRUE, TRUE, Absent) >>
        /\ wrappers = Decorated(1)
        /\ wrapped = [w \in 1..Len(wrappers) |-> HowWrapped("exception_alert", 1)]
        /\ inv = [p \in Procs |-> IdleInv]
        /\ lastCall = NoCall
        /\ envCall = NoEnvCall

NextSend ==
    \/ \E text \in Texts, pm \in Opt(GivenParseModes),
          pv \in Opt({FALSE}), nt \in Opt({TRUE}), out \in TransportOutcomes :
            SendMessageCall(1, 1001, text, pm, pv, nt, out)
    \/ \E text \in Texts, pm \in Opt(GivenParseModes),
          pv \in Opt({FALSE}), nt \in Opt({TRUE}), out \in TransportOutcomes :
            CustomAlertCall(1, text, pm, pv, nt, out)
    \/ \E w \in 1..Len(wrappers) : Call(1, w, 0, Absent)
    \/ Try(1)
    \/ Except(1)
    \/ \E out \in TransportOutcomes : Send(1, out)
    \/ Reraise(1)

SpecSend == InitSend /\ [][NextSend]_vars

-----------------------------------------------------------------------------
(* SpecConc: the threads call the decorated functions of one instance      *)
(* concurrently; the steps of their calls interleave.                      *)

InitConc ==
    \E bl \in {<<>>, <<"KeyError", "Error">>}, wl \in {<<>>, <<"Error">>} :
        /\ heap = << <<>>, <<>>, bl, wl >>
        /\ alerters = << Alerter__init__("T1", 42, Some(ListRef(3)), Some(ListRef(4))) >>
        /\ made = << Made(FALSE, FALSE, Absent) >>
        /\ wrappers = Decorated(1)
        /\ wrapped = [w \in 1..Len(wrappers) |-> HowWrapped("exception_alert", 1)]
        /\ inv = [p \in Procs |-> IdleInv]
        /\ lastCall = NoCall
        /\ envCall = NoEnvCall

NextConc ==
    \E p \in Procs :
        \/ \E w \in 1..Len(wrappers), x \in Xs : Call(p, w, x, Absent)
        \/ Try(p)
        \/ Except(p)
        \/ \E out \in {Response(200), TransportRaises} : Send(p, out)
        \/ Reraise(p)

SpecConc == InitConc /\ [][NextConc]_vars

-----------------------------------------------------------------------------
(* SpecEnv: the process constructs its instance from the environment,      *)
(* decorates its functions with it, and one thread calls them.             *)

NextEnv ==
    \/ \E env \in Envs : FromEnvironment(env)
    \/ Decorate(1)
    \/ \E w \in 1..Len(wrappers), x \in Xs : Call(1, w, x, Absent)
    \/ Try(1)
    \/ Except(1)
    \/ \E out \in TransportOutcomes : Send(1, out)
    \/ Reraise(1)

SpecEnv == InitEmpty /\ [][NextEnv]_vars

-----------------------------------------------------------------------------
(* SpecInit: the application constructs instances, with and without filter *)
(* arguments, and adds names to their filters in place.                    *)

NextInit ==
    \/ \E bl \in Opt({<<"KeyError">>}), wl \in Opt({<<>>}) :
            Construct("T1", 42, bl, wl)
    \/ \E d \in 1..Len(alerters), attr \in {"whitelist", "blacklist"},
          name \in {"ValueError", "KeyError"} : Add(d, attr, name)

SpecInit == InitEmpty /\ [][NextInit]_vars

-----------------------------------------------------------------------------
(* SpecRef: the application wraps functions with one instance, changes the *)
(* instance's configuration between calls, and one thread calls the        *)
(* wrappers again and again.                                               *)

InitRef ==
    /\ heap = << <<>>, <<>>, <<>>, <<>> >>
    /\ alerters = << Alerter__init__("T1", 42, Some(ListRef(3)), Some(ListRef(4))) >>
    /\ made = << Made(FALSE, FALSE, Absent) >>
    /\ wrappers = <<>>
    /\ wrapped = <<>>
    /\ inv = [p \in Procs |-> IdleInv]
    /\ lastCall = NoCall
    /\ envCall = NoEnvCall

NextRef ==
    \/ \E func \in {f \in Funcs : f.name \in {"parse", "lookup"}},
          via \in {"exception_alert", "__call__"} : Wrap(1, func, via)
    \/ Add(1, "whitelist", "ValueError")
    \/ Add(1, "blacklist", "KeyError")
    \/ Assign(1, "chat_id", -7)
    \/ Assign(1, "bot_token", "T2")
    \/ \E w \in 1..Len(wrappers) : Call(1, w, 0, Absent)
    \/ Try(1)
    \/ Except(1)
    \/ \E out \in {Response(200), TransportRaises} : Send(1, out)
    \/ Reraise(1)
    \/ Finish(1)

SpecRef == InitRef /\ [][NextRef]_vars

-----------------------------------------------------------------------------
(* Properties of a call of a wrapper.                                      *)

Names(c) == {c.items[i] : i \in 1..Len(c.items)}

\* The filter policy over a whitelist W and a blacklist B of type names.
ShouldAlert(T, W, B) == T \notin Names(W) /\ (Names(B) = {} \/ T \in Names(B))

\* Thread p's call is over and its function raised.
FuncRaised(p) == inv[p].pc = "done" /\ inv[p].exc # Absent

\* Thread p's call is over and its function returned.
FuncReturned(p) == inv[p].pc = "done" /\ inv[p].exc = Absent

RaisedType(p) == inv[p].exc[1].type

SendFailed(p) == inv[p].transport = Some(TransportRaises)

\* C1: a call whose function raises an exception of type name T, under a
\* whitelist W and a blacklist B of type names, makes exactly one
\* send-message call if T is not in W and (B is empty or T is in B), and none
\* otherwise, whatever the exception's place in the class hierarchy; no call
\* makes more than one.
C1_FilterDecision ==
    \A p \in Procs :
        /\ Len(inv[p].requests) <= 1
        /\ FuncRaised(p) =>
              LET c == inv[p].cfg[1] IN
              Len(inv[p].requests) =
                 IF ShouldAlert(RaisedType(p), c.whitelist, c.blacklist) THEN 1 ELSE 0

C1_Witness ==
    \E p \in Procs :
        /\ FuncRaised(p)
        /\ RaisedType(p) = "KeyboardInterrupt"
        /\ Names(inv[p].cfg[1].whitelist) = {"KeyError"}
        /\ Names(inv[p].cfg[1].blacklist) = {"KeyboardInterrupt", "ValueError"}
        /\ Len(inv[p].requests) = 1

\* C2 as stated: whenever the function raises E, the wrapper re-raises E
\* itself, whatever the filter decided and whatever became of the alert.
C2_AlwaysOriginal ==
    \A p \in Procs :
        FuncRaised(p) => inv[p].result = Some(Raised(inv[p].exc[1], Absent))

\* C2 amended: whenever the function raises E, the wrapper re-raises E
\* itself unless the alert's send-message call raises, and then the delivery
\* error leaves the wrapper with E as its context; when an alert is due its
\* one send-message call has been made by the time the exception surfaces.
C2_OriginalUnlessSendRaises ==
    \A p \in Procs :
        FuncRaised(p) =>
            LET E == inv[p].exc[1]
                c == inv[p].cfg[1]
            IN /\ inv[p].result =
                    Some(IF SendFailed(p) THEN Raised(ConnectionError, Some(E))
                                          ELSE Raised(E, Absent))
               /\ ShouldAlert(E.type, c.whitelist, c.blacklist)
                    => Len(inv[p].requests) = 1

C2_Witness ==
    \E p \in Procs :
        /\ FuncRaised(p)
        /\ inv[p].transport = Some(Response(403))
        /\ Len(inv[p].requests) = 1
        /\ inv[p].result = Some(Raised(Exc("ValueError", "bad"), Absent))

\* C4: when the function raises and the alert's send-message call raises,
\* one send attempt has been made and the delivery error leaves the wrapper;
\* a call whose function raised never returns normally.
C4_FailureSurfaces ==
    \A p \in Procs :
        FuncRaised(p) =>
            /\ inv[p].result # Absent
            /\ inv[p].result[1].kind = "raise"
            /\ SendFailed(p) =>
                  /\ Len(inv[p].requests) = 1
                  /\ inv[p].result[1].exc = Some(ConnectionError)

C4_Witness ==
    \E p \in Procs :
        /\ FuncRaised(p)
        /\ SendFailed(p)
        /\ inv[p].result[1].exc = Some(ConnectionError)
        /\ inv[p].result[1].context = Some(Exc("KeyError", "k"))

\* C5: a call whose function returns makes no send-message call and returns
\* the value the function itself returns for the same positional and keyword
\* arguments, under every filter configuration, and the instance's
\* configuration is as it was when the call began.
C5_ReturnPassesThrough ==
    \A p \in Procs :
        FuncReturned(p) =>
            /\ inv[p].requests = <<>>
            /\ inv[p].result =
                  Some(FuncResult(wrappers[inv[p].w].func, inv[p].x, inv[p].base))
            /\ inv[p].result[1].kind = "return"
            /\ Some(Config(wrappers[inv[p].w].self)) = inv[p].cfg

C5_Witness ==
    \E p \in Procs :
        /\ FuncReturned(p)
        /\ inv[p].base = Some(3)
        /\ inv[p].result = Some(Returned(4))
        /\ Truthy(inv[p].cfg[1].whitelist)
        /\ ~Truthy(inv[p].cfg[1].blacklist)

-----------------------------------------------------------------------------
(* Properties of the request.                                              *)

SendMessageUrl(token) ==
    CASE token = "T1" -> "https://api.telegram.org/botT1/sendMessage"
      [] token = "T2" -> "https://api.telegram.org/botT2/sendMessage"

\* The one request a call with these arguments is to post.
OneRequest(token, chat_id, text, parse_mode, preview, notification) ==
    << [url |-> SendMessageUrl(token),
        json |-> [chat_id |-> chat_id,
                  text |-> text,
                  parse_mode |-> IF parse_mode = Absent THEN None ELSE parse_mode[1],
                  disable_web_page_preview |->
                        IF preview = Absent THEN TRUE ELSE preview[1],
                  disable_notification |->
                        IF notification = Absent THEN FALSE ELSE notification[1]]] >>

\* C7: a call of send_message posts exactly one request, to
\* https://api.telegram.org/bot<TOKEN>/sendMessage, whose JSON body carries
\* the given chat_id, text, parse_mode, disable_web_page_preview (true when
\* not given) and disable_notification (false when not given), and returns
\* the transport's response as it is; custom_alert posts the request
\* send_message posts for the instance's chat_id and the same options; the
\* wrapper's alert goes to the instance's chat_id with parse_mode "HTML".
C7_OneRequest ==
    /\ lastCall.op # "none" =>
          LET c == lastCall.self[1]
              to == IF lastCall.op = "custom_alert" THEN c.chat_id
                                                    ELSE lastCall.chat_id[1]
          IN /\ lastCall.requests =
                    OneRequest(c.bot_token, to, lastCall.text, lastCall.parse_mode,
                               lastCall.preview, lastCall.notification)
             /\ lastCall.transport[1].kind = "response"
                    => lastCall.result = Some(Returned(lastCall.transport[1].status))
    /\ \A p \in Procs :
          inv[p].requests # <<>> =>
              LET c == inv[p].cfg[1] IN
              /\ Len(inv[p].requests) = 1
              /\ inv[p].requests[1].url = SendMessageUrl(c.bot_token)
              /\ inv[p].requests[1].json.chat_id = c.chat_id
              /\ inv[p].requests[1].json.parse_mode = "HTML"

C7_Witness ==
    /\ lastCall.op = "custom_alert"
    /\ lastCall.self[1].bot_token = "T2"
    /\ lastCall.parse_mode = Some("MARKDOWN")
    /\ lastCall.preview = Absent
    /\ lastCall.notification = Some(TRUE)
    /\ lastCall.result = Some(Returned(403))
    /\ Len(lastCall.requests) = 1
    /\ lastCall.requests[1].json.chat_id = -7
    /\ \E p \in Procs : Len(inv[p].requests) = 1

-----------------------------------------------------------------------------
(* Properties of concurrent calls.                                         *)

Pieces(text) == {text[i] : i \in 1..Len(text)}

\* What the call w(x, base=...) does when no other call runs, under the
\* configuration c and with the transport answering `out` if asked: the
\* number of requests, and how the call ends.
Alone(func, x, base, c, out) ==
    LET r == FuncResult(func, x, base) IN
    IF r.kind = "return" THEN [sends |-> 0, result |-> r]
    ELSE IF ~ShouldAlert(r.exc[1].type, c.whitelist, c.blacklist)
    THEN [sends |-> 0, result |-> Raised(r.exc[1], Absent)]
    ELSE [sends |-> 1,
          result |-> IF out = Some(TransportRaises)
                     THEN Raised(ConnectionError, r.exc)
                     ELSE Raised(r.exc[1], Absent)]

\* C9: in every interleaving of the threads' calls, each finished call has
\* made the number of send-message calls (0 or 1) and ended the way it does
\* when run alone, its alert names its own exception type, message, function
\* and module, and no step of a call writes an attribute of the instance or
\* a list the instance holds.
C9_Independent ==
    /\ [](\A p \in Procs :
            inv[p].pc = "done" =>
                LET func == wrappers[inv[p].w].func
                    a == Alone(func, inv[p].x, inv[p].base, inv[p].cfg[1],
                               inv[p].transport)
                IN /\ Len(inv[p].requests) = a.sends
                   /\ inv[p].result = Some(a.result)
                   /\ a.sends = 1 =>
                        LET e == FuncResult(func, inv[p].x, inv[p].base).exc[1]
                            json == inv[p].requests[1].json
                        IN /\ {e.type, func.name, func.module} \subseteq Pieces(json.text)
                           /\ \E i \in 1..Len(json.text) :
                                 /\ json.text[i] = "('"
                                 /\ json.text[i + 1] \in {e.msg, "'" \o e.msg \o "'"}
                           /\ json.chat_id = inv[p].cfg[1].chat_id)
    /\ [][inv' # inv => heap' = heap /\ alerters' = alerters]_vars

C9_Witness ==
    /\ \A p \in Procs : inv[p].pc = "done"
    /\ inv[1].w # inv[2].w
    /\ Len(inv[1].requests) = 1 /\ inv[1].transport = Some(TransportRaises)
    /\ Len(inv[2].requests) = 1 /\ inv[2].transport = Some(Response(200))
    /\ inv[1].requests[1].json.text # inv[2].requests[1].json.text

-----------------------------------------------------------------------------
(* Properties of from_environment.                                         *)

\* The integer each chat id text stands for, if any.
ChatIdOf(text) ==
    CASE text = <<"4", "2">> -> Some(42)
      [] text = <<"-", "7">> -> Some(-7)
      [] text = <<" ", "7">> -> Some(7)
      [] OTHER -> Absent

\* C6: from_environment returns an instance exactly when ALERT_BOT_TOKEN and
\* ALERT_CHAT_ID are set and ALERT_CHAT_ID parses as an integer, and the
\* instance has that token and that integer; otherwise it raises and
\* constructs nothing: a KeyError naming ALERT_BOT_TOKEN when the token is
\* not set, a KeyError naming ALERT_CHAT_ID when only the chat id is not set,
\* a ValueError when the chat id is set but is no integer.
C6_FromEnvironment ==
    envCall.env # Absent =>
        LET env == envCall.env[1]
            r == envCall.result[1]
            error ==
                IF env.ALERT_BOT_TOKEN = Absent
                THEN Some(Exc("KeyError",
                              "ALERT_BOT_TOKEN must be set in environment variables"))
                ELSE IF env.ALERT_CHAT_ID = Absent
                THEN Some(Exc("KeyError",
                              "ALERT_CHAT_ID must be set in environment variables"))
                ELSE IF ChatIdOf(env.ALERT_CHAT_ID[1]) = Absent
                THEN Some(Exc("ValueError", "invalid literal for int() with base 10"))
                ELSE Absent
        IN IF error = Absent
           THEN /\ r.kind = "return"
                /\ Len(alerters) = 1 /\ envCall.alerter = 1
                /\ alerters[1].bot_token = env.ALERT_BOT_TOKEN[1]
                /\ Some(alerters[1].chat_id) = ChatIdOf(env.ALERT_CHAT_ID[1])
           ELSE /\ r.kind = "raise" /\ r.exc = error
                /\ alerters = <<>> /\ envCall.alerter = 0

C6_Witness ==
    /\ envCall.env # Absent
    /\ envCall.env[1].ALERT_BOT_TOKEN = Some("T1")
    /\ envCall.env[1].ALERT_CHAT_ID = Absent
    /\ envCall.result[1].kind = "raise"
    /\ envCall.result[1].exc[1].type = "KeyError"

\* The type names a filter lists: the items of a list; of a text, the names
\* between its commas.
Listed(c) ==
    IF c.kind = "list" THEN Names(c)
    ELSE LET t == c.items
             Bounded(i, j) ==
                /\ i = 1 \/ t[i - 1] = ","
                /\ j = Len(t) \/ t[j + 1] = ","
                /\ \A k \in i..j : t[k] # ","
         IN { n \in TypeNames :
                \E i \in 1..Len(t), j \in 1..Len(t) :
                    i <= j /\ Bounded(i, j) /\ SubSeq(t, i, j) = Chars(n) }

\* C8: for an instance built by from_environment, a filter whose variable
\* is not set is empty, and a filter whose variable is set matches the type
\* name T exactly when T is one of the names the variable lists, so that a
\* call raising T sends its alert exactly when T is not listed by the
\* whitelist and the blacklist lists nothing or lists T.
C8_EnvFiltersAreCollections ==
    /\ \A d \in 1..Len(alerters) :
          made[d].env # Absent =>
            /\ made[d].env[1].ALERT_BOT_WHITELIST = Absent
                  => ~Truthy(Config(d).whitelist)
            /\ made[d].env[1].ALERT_BOT_BLACKLIST = Absent
                  => ~Truthy(Config(d).blacklist)
    /\ \A p \in Procs :
          FuncRaised(p) /\ made[wrappers[inv[p].w].self].env # Absent =>
              LET c == inv[p].cfg[1]
                  T == RaisedType(p)
              IN Len(inv[p].requests) =
                    IF T \notin Listed(c.whitelist)
                       /\ (Listed(c.blacklist) = {} \/ T \in Listed(c.blacklist))
                    THEN 1 ELSE 0

-----------------------------------------------------------------------------
(* Properties of construction and of the closure's reference.              *)

Range(s) == {s[i] : i \in 1..Len(s)}

\* C3: an instance constructed without a filter argument holds its own list
\* for that filter: the list holds the names added through that instance and
\* no others, whatever is constructed or added to other instances, and its
\* filter tests answer accordingly.
C3_OwnFilterLists ==
    \A d \in 1..Len(alerters) :
        /\ made[d].wlDefault =>
              /\ Config(d).whitelist.items = made[d].wlAdded
              /\ \A T \in TypeNames :
                    InWhitelist(Config(d), T) <=> T \in Range(made[d].wlAdded)
        /\ made[d].blDefault =>
              /\ Config(d).blacklist.items = made[d].blAdded
              /\ \A T \in TypeNames :
                    PassesBlacklist(Config(d), T)
                        <=> (made[d].blAdded = <<>> \/ T \in Range(made[d].blAdded))

\* C10: every finished call of a wrapper has taken its filter decision and
\* its alert's URL and chat id from the configuration its instance had when
\* the call was made, whatever the configuration was when the function was
\* wrapped; and the closure made by applying the instance to a function is
\* the closure exception_alert makes for that instance and function.
C10_ByReference ==
    /\ \A p \in Procs :
          inv[p].pc = "done" =>
              LET c == inv[p].cfg[1]
                  a == Alone(wrappers[inv[p].w].func, inv[p].x, inv[p].base, c,
                             inv[p].transport)
              IN /\ Len(inv[p].requests) = a.sends
                 /\ inv[p].result = Some(a.result)
                 /\ a.sends = 1 =>
                      /\ inv[p].requests[1].url = SendMessageUrl(c.bot_token)
                      /\ inv[p].requests[1].json.chat_id = c.chat_id
    /\ \A w \in 1..Len(wrappers) :
          wrappers[w] = [self |-> wrappers[w].self, func |-> wrappers[w].func,
                         name |-> wrappers[w].func.name,
                         module |-> wrappers[w].func.module]

C10_Witness ==
    \E p \in Procs :
        /\ inv[p].pc = "done"
        /\ wrapped[inv[p].w].via = "__call__"
        /\ wrapped[inv[p].w].cfg.chat_id = 42
        /\ ~Truthy(wrapped[inv[p].w].cfg.blacklist)
        /\ inv[p].cfg[1].chat_id = -7
        /\ Names(inv[p].cfg[1].blacklist) = {"KeyError"}
        /\ RaisedType(p) = "KeyError"
        /\ Len(inv[p].requests) = 1
        /\ inv[p].requests[1].json.chat_id = -7

=============================================================================
